---- MODULE Spec2Model ----
(***************************************************************************)
(* State-machine model of the text generation service: the credential      *)
(* store and password policy (src/src/auth.py), the JWT issuer/verifier    *)
(* (src/src/auth.py), the request schemas (src/src/schemas.py), the        *)
(* completion service (src/src/service.py), the generation engine          *)
(* (src/src/models.py) and the HTTP routes (src/src/main.py).              *)
(*                                                                         *)
(* Conventions.  An Optional value is None (the empty tuple) or Some(v)    *)
(* (a one-element tuple).  A str whose characters matter (a password, a    *)
(* prompt, a generated text) is a sequence of one-character strings.  A    *)
(* float temperature is an integer number of tenths.  A datetime is an     *)
(* integer number of minutes, and a timedelta a number of minutes.         *)
(***************************************************************************)
EXTENDS Integers, Sequences, FiniteSets, TLC

\* ------------------------------------------------------------------ bounds
\* The clock runs over 0..MaxTime.
MaxTime == 2
\* ACCESS_TOKEN_EXPIRE_MINUTES is read from the environment: 0..MaxTtl.
MaxTtl == 1

\* ---------------------------------------------------------------- optionals
None == <<>>
Some(v) == <<v>>

\* Python's `x or d` on an Optional number: d when x is None or zero.
PyOr(x, d) == IF x = None \/ x[1] = 0 THEN d ELSE x[1]

\* ------------------------------------------------------------ AuthConfig
SECRET_KEY == "JWT_SECRET_KEY"
MIN_PASSWORD_LENGTH == 8
REQUIRE_SPECIAL_CHAR == TRUE
REQUIRE_NUMBER == TRUE
REQUIRE_UPPERCASE == TRUE
\* timedelta(minutes=15), the fallback lifetime of create_access_token.
DEFAULT_EXPIRE_MINUTES == 15

\* The fixed punctuation set of validate_password.
SpecialChars ==
    {"!", "@", "#", "$", "%", "^", "&", "*", "(", ")", ",", ".", "?", "\"",
     ":", "{", "}", "|", "<", ">"}
\* c.isdigit()
isdigit(c) == c \in {"0", "1", "2", "3", "4", "5", "6", "7", "8", "9"}
\* c.isupper()
isupper(c) ==
    c \in {"A", "B", "C", "D", "E", "F", "G", "H", "I", "J", "K", "L", "M",
           "N", "O", "P", "Q", "R", "S", "T", "U", "V", "W", "X", "Y", "Z"}

\* ------------------------------------------------------------- the inputs
AdminPassword == <<"a", "d", "m", "i", "n">>
StrongPass == <<"S", "t", "r", "o", "n", "g", "1", "!">>
OtherStrongPass == <<"P", "a", "s", "s", "w", "0", "r", "D", "?">>
NoSpecialPass == <<"S", "t", "r", "o", "n", "g", "1", "-">>
NoDigitPass == <<"S", "t", "r", "o", "n", "g", "x", "!">>
NoUpperPass == <<"s", "t", "r", "o", "n", "g", "1", "!">>
ShortPass == <<"S", "t", "r", "1", "!">>
\* A policy-compliant password of 101 characters.
LongPass == [i \in 1..101 |-> IF i = 1 THEN "S" ELSE IF i = 2 THEN "1" ELSE IF i = 3 THEN "!" ELSE "x"]

Passwords ==
    {AdminPassword, StrongPass, OtherStrongPass, NoSpecialPass, NoDigitPass,
     NoUpperPass, ShortPass, LongPass}

BootstrapUser == "admin"
Usernames == {BootstrapUser, "alice", "al"}
\* The inputs of the whole-system specification.
FewUsernames == {BootstrapUser, "alice"}
FewPasswords == {AdminPassword, StrongPass}
\* bcrypt draws a random salt per hash.
Salts == {"salt-a", "salt-b"}

\* ------------------------------------------------------- password policy
\* validate_password with the digit rule left out.
validate_password_no_digit_rule(password) ==
    IF Len(password) < MIN_PASSWORD_LENGTH THEN FALSE
    ELSE IF REQUIRE_SPECIAL_CHAR /\ ~(\E i \in 1..Len(password) : password[i] \in SpecialChars) THEN FALSE
    ELSE IF REQUIRE_UPPERCASE /\ ~(\E i \in 1..Len(password) : isupper(password[i])) THEN FALSE
    ELSE TRUE

validate_password(password) ==
    IF Len(password) < MIN_PASSWORD_LENGTH THEN FALSE
    ELSE IF REQUIRE_SPECIAL_CHAR /\ ~(\E i \in 1..Len(password) : password[i] \in SpecialChars) THEN FALSE
    ELSE IF REQUIRE_NUMBER /\ ~(\E i \in 1..Len(password) : isdigit(password[i])) THEN FALSE
    ELSE IF REQUIRE_UPPERCASE /\ ~(\E i \in 1..Len(password) : isupper(password[i])) THEN FALSE
    ELSE TRUE

\* pwd_context.hash: a one-way digest of the password under a fresh salt.
\* The digest is opaque: the model only ever compares it with another digest.
pwd_hash(password, salt) ==
    [scheme |-> "bcrypt", salt |-> salt, digest |-> <<salt, password>>]

\* pwd_context.verify: hash the candidate under the stored salt and compare.
verify_password(plain_password, hashed_password) ==
    pwd_hash(plain_password, hashed_password.salt) = hashed_password

WeakPasswordDetail == "Password does not meet security requirements"

\* get_password_hash: a raised HTTPException or the hash.
get_password_hash(password, salt) ==
    IF ~validate_password(password)
    THEN [raised |-> TRUE, status_code |-> 400, detail |-> WeakPasswordDetail, value |-> None]
    ELSE [raised |-> FALSE, status_code |-> 0, detail |-> "", value |-> Some(pwd_hash(password, salt))]

\* ------------------------------------------------------ credential store
UserRecord(username, hashed_password, is_active) ==
    [username |-> username, hashed_password |-> hashed_password, is_active |-> is_active]

\* The module-level users_db, with the bootstrap account's hash under `salt`.
InitialUsersDb(salt) ==
    [u \in {BootstrapUser} |-> UserRecord(BootstrapUser, pwd_hash(AdminPassword, salt), TRUE)]

get_user(db, username) ==
    IF username \in DOMAIN db THEN Some(db[username]) ELSE None

\* authenticate_user without the password check.
authenticate_user_any_password(db, username, password) ==
    LET user == get_user(db, username)
    IN  IF user = None THEN None ELSE user

authenticate_user(db, username, password) ==
    LET user == get_user(db, username)
    IN  IF user = None \/ ~verify_password(password, user[1].hashed_password)
        THEN None
        ELSE user

\* ------------------------------------------------------------------ JWT
\* jwt.encode: the claims, signed with `key`.
jwt_encode(claims, key) == [claims |-> claims, key |-> key]

\* create_access_token(data, expires_delta) at time utcnow.
create_access_token(data, expires_delta, utcnow) ==
    LET expire == utcnow + PyOr(expires_delta, DEFAULT_EXPIRE_MINUTES)
        to_encode == [k \in DOMAIN data \cup {"exp"} |-> IF k = "exp" THEN expire ELSE data[k]]
    IN  jwt_encode(to_encode, SECRET_KEY)

\* jwt.decode with the expiry check switched off.
jwt_decode_ignoring_exp(token, key, utcnow) ==
    IF token.key # key THEN [error |-> TRUE, payload |-> None]
    ELSE [error |-> FALSE, payload |-> Some(token.claims)]

\* jwt.decode: JWTError on a bad signature or an exp in the past, else the payload.
jwt_decode(token, key, utcnow) ==
    IF token.key # key THEN [error |-> TRUE, payload |-> None]
    ELSE IF "exp" \in DOMAIN token.claims /\ token.claims["exp"] < utcnow
    THEN [error |-> TRUE, payload |-> None]
    ELSE [error |-> FALSE, payload |-> Some(token.claims)]

CredentialsDetail == "Could not validate credentials"
InactiveDetail == "Inactive user"

\* get_current_user: the credentials exception (401) or the user.
get_current_user(token, db, utcnow) ==
    LET credentials_exception == [status_code |-> 401, detail |-> CredentialsDetail, user |-> None]
        decoded == jwt_decode(token, SECRET_KEY, utcnow)
    IN  IF decoded.error THEN credentials_exception
        ELSE LET payload == decoded.payload[1]
                 username == IF "sub" \in DOMAIN payload THEN Some(payload["sub"]) ELSE None
             IN  IF username = None THEN credentials_exception
                 ELSE LET user == get_user(db, username[1])
                      IN  IF user = None THEN credentials_exception
                          ELSE [status_code |-> 200, detail |-> "", user |-> user]

\* get_current_active_user on top of get_current_user.
get_current_active_user(token, db, utcnow) ==
    LET current_user == get_current_user(token, db, utcnow)
    IN  IF current_user.status_code # 200 THEN current_user
        ELSE IF ~current_user.user[1].is_active
        THEN [status_code |-> 400, detail |-> InactiveDetail, user |-> None]
        ELSE current_user

\* OAuth2PasswordBearer: 401 when the request carries no bearer token.
NotAuthenticatedDetail == "Not authenticated"
Authorize(bearer, db, utcnow) ==
    IF bearer = None
    THEN [status_code |-> 401, detail |-> NotAuthenticatedDetail, user |-> None]
    ELSE get_current_active_user(bearer[1], db, utcnow)

\* -------------------------------------------------------------- schemas
USERNAME_MIN_LENGTH == 3
USERNAME_MAX_LENGTH == 50
PASSWORD_MIN_LENGTH == 8
PASSWORD_MAX_LENGTH == 100

\* UserCreate: whether the body passes the field constraints.
UserCreate(username, password) ==
    /\ Len(username) >= USERNAME_MIN_LENGTH
    /\ Len(username) <= USERNAME_MAX_LENGTH
    /\ Len(password) >= PASSWORD_MIN_LENGTH
    /\ Len(password) <= PASSWORD_MAX_LENGTH

PROMPT_MIN_LENGTH == 1
PROMPT_MAX_LENGTH == 4096
MAX_TOKENS_DEFAULT == 200
MAX_TOKENS_GE == 1
MAX_TOKENS_LE == 2048
\* temperature in tenths: default 0.7, ge 0.0, le 1.0
TEMPERATURE_DEFAULT == 7
TEMPERATURE_GE == 0
TEMPERATURE_LE == 10
N_GE == 1
N_LE == 5
STOP_MAX_LENGTH == 4
STOP_SEQUENCE_MAX_LENGTH == 50

\* CompletionRequest: whether the body passes the field constraints.  An
\* Optional field accepts an explicit null (None).
CompletionRequest(request) ==
    /\ Len(request.prompt) >= PROMPT_MIN_LENGTH
    /\ Len(request.prompt) <= PROMPT_MAX_LENGTH
    /\ request.max_tokens # None =>
           request.max_tokens[1] >= MAX_TOKENS_GE /\ request.max_tokens[1] <= MAX_TOKENS_LE
    /\ request.temperature # None =>
           request.temperature[1] >= TEMPERATURE_GE /\ request.temperature[1] <= TEMPERATURE_LE
    /\ request.n # None => request.n[1] >= N_GE /\ request.n[1] <= N_LE
    /\ request.stop # None =>
           /\ Len(request.stop[1]) <= STOP_MAX_LENGTH
           /\ \A i \in DOMAIN request.stop[1] : Len(request.stop[1][i]) <= STOP_SEQUENCE_MAX_LENGTH

\* CompletionUsage with its field constraints (ge=0) and validate_total_tokens:
\* the usage, or None when validation raises.
CompletionUsage(prompt_tokens, completion_tokens, total_tokens) ==
    IF prompt_tokens < 0 \/ completion_tokens < 0 \/ total_tokens < 0 THEN None
    ELSE LET expected_total == prompt_tokens + completion_tokens
         IN  IF total_tokens # expected_total THEN None
             ELSE Some([prompt_tokens |-> prompt_tokens,
                        completion_tokens |-> completion_tokens,
                        total_tokens |-> total_tokens])

\* ------------------------------------------------------------- str helpers
Whitespace == {" ", "\n", "\t"}

\* The index of the first whitespace character of s, or Len(s) + 1.
RECURSIVE FirstWhitespace(_, _)
FirstWhitespace(s, i) ==
    IF i > Len(s) THEN Len(s) + 1
    ELSE IF s[i] \in Whitespace THEN i
    ELSE FirstWhitespace(s, i + 1)

\* str.split(" "): the pieces between single spaces, empty ones included.
RECURSIVE split_on_space(_)
split_on_space(s) ==
    IF \A i \in DOMAIN s : s[i] # " " THEN <<s>>
    ELSE LET n == CHOOSE i \in DOMAIN s : s[i] = " " /\ \A j \in 1..(i - 1) : s[j] # " "
         IN  <<SubSeq(s, 1, n - 1)>> \o split_on_space(SubSeq(s, n + 1, Len(s)))

\* str.split(): the maximal runs of non-whitespace characters, in order.
RECURSIVE split(_)
split(s) ==
    IF s = <<>> THEN <<>>
    ELSE IF Head(s) \in Whitespace THEN split(Tail(s))
    ELSE LET n == FirstWhitespace(s, 1)
         IN  <<SubSeq(s, 1, n - 1)>> \o split(SubSeq(s, n, Len(s)))

\* str.strip(): without its leading and trailing whitespace.
RECURSIVE strip(_)
strip(s) ==
    IF s = <<>> THEN <<>>
    ELSE IF Head(s) \in Whitespace THEN strip(Tail(s))
    ELSE IF s[Len(s)] \in Whitespace THEN strip(SubSeq(s, 1, Len(s) - 1))
    ELSE s

AssistantMarker == "<|assistant|>"

\* text.split("<|assistant|>")[-1]: what follows the last marker (all of the
\* text when it holds none).
RECURSIVE AfterLastMarker(_, _)
AfterLastMarker(s, i) ==
    IF i = 0 THEN s
    ELSE IF s[i] = AssistantMarker THEN SubSeq(s, i + 1, Len(s))
    ELSE AfterLastMarker(s, i - 1)

\* ------------------------------------------------------------ ModelConfig
MODEL_NAME == "TinyLlama/TinyLlama-1.1B-Chat-v1.0"
CONFIG_MAX_LENGTH == 200
\* temperature 0.7, in tenths
CONFIG_TEMPERATURE == 7

ModelConfig ==
    [model_name |-> MODEL_NAME, max_length |-> CONFIG_MAX_LENGTH, temperature |-> CONFIG_TEMPERATURE]

\* ---------------------------------------------------------- TextGenerator
Devices == {"cuda", "cpu"}

\* TextGenerator(config) on `device`.
TextGenerator(config, device) == [config |-> config, device |-> device]

format_prompt(prompt) ==
    <<"<|system|>", "You are a helpful AI assistant.", "\n", "<|user|>">>
        \o prompt \o <<"\n", AssistantMarker>>

\* top_p=0.95, in hundredths
TOP_P == 95

\* What the tokenizer and the model do in one call of generate: the tokenizer
\* raises, the model raises a ValueError, the model raises anything else, or
\* the model returns the prompt followed by a continuation.
Continuations ==
    {<<>>,
     <<"h", "i">>,
     <<" ", "h", "i", " ", "y", "o", "u", "\n">>,
     <<"x", AssistantMarker, " ", "o", "k", " ", "o", "k">>}

ModelOutcomes ==
    {[kind |-> "tokenizer_error", message |-> "tokenizer failed", text |-> <<>>],
     [kind |-> "model_value_error", message |-> "invalid generation arguments", text |-> <<>>],
     [kind |-> "model_error", message |-> "CUDA out of memory", text |-> <<>>]}
    \cup {[kind |-> "text", message |-> "", text |-> c] : c \in Continuations}

EngineRaise(exception, message, invoked) ==
    [raised |-> exception, message |-> message, text |-> <<>>, invoked |-> invoked]

\* TextGenerator.generate; `invoked` holds the arguments of self.model.generate
\* when the call reached it.
generate(self, prompt, max_length, temperature, outcome) ==
    LET ml == PyOr(max_length, self.config.max_length)
        t == PyOr(temperature, self.config.temperature)
    IN  IF ml < 1 THEN EngineRaise("ValueError", <<"max_length must be positive">>, None)
        ELSE IF t < 0 THEN EngineRaise("ValueError", <<"temperature must be non-negative">>, None)
        ELSE IF outcome.kind = "tokenizer_error"
        THEN EngineRaise("RuntimeError", <<"Text generation failed: ", outcome.message>>, None)
        ELSE LET call == Some([max_length |-> ml, temperature |-> t, do_sample |-> TRUE, top_p |-> TOP_P])
             IN  IF outcome.kind = "model_value_error"
                 THEN EngineRaise("ValueError", <<outcome.message>>, call)
                 ELSE IF outcome.kind = "model_error"
                 THEN EngineRaise("RuntimeError", <<"Text generation failed: ", outcome.message>>, call)
                 ELSE LET generated_text == format_prompt(prompt) \o outcome.text
                          response == strip(AfterLastMarker(generated_text, Len(generated_text)))
                      IN  [raised |-> "", message |-> <<>>, text |-> response, invoked |-> call]

\* --------------------------------------------------- TextGenerationService
is_ready(config, generator) == config # None /\ generator # None

\* TextGenerationService.initialize: ModelConfig() raises, TextGenerator(...)
\* raises, or both succeed on `device`.  The fields after the call, and
\* whether it raised.
InitOutcomes == {"config_error", "model_error"} \cup Devices

initialize(config, generator, outcome) ==
    IF outcome = "config_error"
    THEN [config |-> config, generator |-> generator, raised |-> TRUE]
    ELSE IF outcome = "model_error"
    THEN [config |-> Some(ModelConfig), generator |-> generator, raised |-> TRUE]
    ELSE [config |-> Some(ModelConfig),
          generator |-> Some(TextGenerator(ModelConfig, outcome)),
          raised |-> FALSE]

\* shutdown that leaves the generator in place.
shutdown_keeping_generator(config, generator) ==
    [config |-> config, generator |-> generator, raised |-> FALSE]

\* TextGenerationService.shutdown.
shutdown(config, generator) ==
    [config |-> config,
     generator |-> IF generator # None THEN None ELSE generator,
     raised |-> FALSE]

\* A finish reason other than STOP.
StopReasonLENGTH == "length"

StopReasonSTOP == "stop"

ServiceRaise(exception, message, invoked, engine_calls) ==
    [raised |-> exception, message |-> message, response |-> None, invoked |-> invoked,
     engine_calls |-> engine_calls]

EngineCallArgs(request) ==
    [prompt |-> request.prompt, max_length |-> request.max_tokens,
     temperature |-> request.temperature]

\* A call of the generator that is made again when it raised.
engine_call_retrying(self, request, outcome) ==
    LET g == generate(self, request.prompt, request.max_tokens, request.temperature, outcome)
    IN  [result |-> g,
         calls |-> IF g.raised # "" THEN <<EngineCallArgs(request), EngineCallArgs(request)>>
                   ELSE <<EngineCallArgs(request)>>]

\* The call self.generator.generate(...) of generate_completion: its result and
\* the calls of the generator made, each with its arguments.
engine_call(self, request, outcome) ==
    [result |-> generate(self, request.prompt, request.max_tokens, request.temperature, outcome),
     calls |-> <<EngineCallArgs(request)>>]

\* TextGenerationService.generate_completion.
generate_completion(config, generator, request, user_id, outcome, utcnow) ==
    IF ~is_ready(config, generator)
    THEN ServiceRaise("RuntimeError", <<"Service not initialized">>, None, <<>>)
    ELSE LET c == engine_call(generator[1], request, outcome)
             g == c.result
         IN  IF g.raised # "" THEN ServiceRaise(g.raised, g.message, g.invoked, c.calls)
             ELSE LET generated_text == g.text
                      prompt_tokens == Len(split(request.prompt))
                      completion_tokens == Len(split(generated_text))
                      total_tokens == prompt_tokens + completion_tokens
                      usage == CompletionUsage(prompt_tokens, completion_tokens, total_tokens)
                  IN  IF usage = None
                      THEN ServiceRaise("ValidationError",
                               <<"Total tokens must equal prompt_tokens + completion_tokens">>,
                               g.invoked, c.calls)
                      ELSE [raised |-> "", message |-> <<>>, invoked |-> g.invoked,
                            engine_calls |-> c.calls,
                            response |-> Some(
                              [id |-> "cmpl-uuid4", object |-> "text_completion",
                               created |-> utcnow, model |-> request.model,
                               choices |-> <<[text |-> generated_text, index |-> 0,
                                              finish_reason |-> StopReasonSTOP]>>,
                               usage |-> usage[1]])]

get_available_models(config, generator) ==
    IF ~is_ready(config, generator) THEN None
    ELSE Some([data |-> <<[id |-> "tinyllama-1.1b", object |-> "model", owned_by |-> "default"]>>])

\* get_health_status: None when it raises RuntimeError.
get_health_status(config, generator) ==
    IF ~is_ready(config, generator) THEN None
    ELSE Some([status |-> "healthy", model |-> config[1].model_name, device |-> generator[1].device])

\* ---------------------------------------------------------------- routes
\* The outcome of one handled request or lifecycle hook: the route, the HTTP
\* status (0 for a lifecycle hook), the error detail, the body, the request
\* as handled, and the time of handling.
Response(route, status, detail, body, req, at) ==
    [route |-> route, status |-> status, detail |-> detail, body |-> body, req |-> req, at |-> at]

ValidationDetail == "Unprocessable Entity"
DuplicateDetail == "Username already registered"
LoginDetail == "Incorrect username or password"
NotInitializedDetail == "Text generation service not initialized"
NotFullyInitializedDetail == "Service not fully initialized"

\* POST /token: the status, detail and body.
login_for_access_token(db, username, password, expire_minutes, utcnow) ==
    LET user == authenticate_user(db, username, password)
    IN  IF user = None
        THEN [status |-> 401, detail |-> LoginDetail, body |-> None, user |-> user]
        ELSE LET access_token_expires == Some(expire_minutes)
                 access_token == create_access_token([sub |-> user[1].username],
                                                     access_token_expires, utcnow)
             IN  [status |-> 200, detail |-> "", user |-> user,
                  body |-> Some([access_token |-> access_token, token_type |-> "bearer"])]

\* register_user without the check for an existing username.
register_user_overwriting(db, username, password, salt) ==
    IF ~UserCreate(username, password)
    THEN [status |-> 422, detail |-> ValidationDetail, body |-> None, db |-> db]
    ELSE LET hashed_password == get_password_hash(password, salt)
         IN  IF hashed_password.raised
             THEN [status |-> hashed_password.status_code, detail |-> hashed_password.detail,
                   body |-> None, db |-> db]
             ELSE [status |-> 200, detail |-> "",
                   body |-> Some([username |-> username, is_active |-> TRUE]),
                   db |-> [u \in DOMAIN db \cup {username} |->
                             IF u = username
                             THEN UserRecord(username, hashed_password.value[1], TRUE)
                             ELSE db[u]]]

\* POST /register: the status, detail, body and the users_db it leaves.
register_user(db, username, password, salt) ==
    IF ~UserCreate(username, password)
    THEN [status |-> 422, detail |-> ValidationDetail, body |-> None, db |-> db]
    ELSE IF username \in DOMAIN db
    THEN [status |-> 400, detail |-> DuplicateDetail, body |-> None, db |-> db]
    ELSE LET hashed_password == get_password_hash(password, salt)
         IN  IF hashed_password.raised
             THEN [status |-> hashed_password.status_code, detail |-> hashed_password.detail,
                   body |-> None, db |-> db]
             ELSE [status |-> 200, detail |-> "",
                   body |-> Some([username |-> username, is_active |-> TRUE]),
                   db |-> [u \in DOMAIN db \cup {username} |->
                             IF u = username
                             THEN UserRecord(username, hashed_password.value[1], TRUE)
                             ELSE db[u]]]

\* GET /users/me
read_users_me(bearer, db, utcnow) ==
    LET auth == Authorize(bearer, db, utcnow)
    IN  IF auth.status_code # 200
        THEN [status |-> auth.status_code, detail |-> auth.detail, body |-> None]
        ELSE [status |-> 200, detail |-> "",
              body |-> Some([username |-> auth.user[1].username,
                             is_active |-> auth.user[1].is_active])]

\* POST /v1/completions; `invoked` holds the arguments of the model call made,
\* `engine_calls` the calls of the generator made.
create_completion(bearer, request, db, config, generator, outcome, utcnow) ==
    LET auth == Authorize(bearer, db, utcnow)
    IN  IF auth.status_code # 200
        THEN [status |-> auth.status_code, detail |-> <<auth.detail>>, body |-> None,
              invoked |-> None, engine_calls |-> <<>>]
        ELSE IF ~CompletionRequest(request)
        THEN [status |-> 422, detail |-> <<ValidationDetail>>, body |-> None,
              invoked |-> None, engine_calls |-> <<>>]
        ELSE IF ~is_ready(config, generator)
        THEN [status |-> 503, detail |-> <<NotInitializedDetail>>, body |-> None,
              invoked |-> None, engine_calls |-> <<>>]
        ELSE LET r == generate_completion(config, generator, request,
                                          auth.user[1].username, outcome, utcnow)
             IN  IF r.raised # ""
                 THEN [status |-> 500, detail |-> r.message, body |-> None,
                       invoked |-> r.invoked, engine_calls |-> r.engine_calls]
                 ELSE [status |-> 200, detail |-> <<>>, body |-> r.response,
                       invoked |-> r.invoked, engine_calls |-> r.engine_calls]

\* list_models without the readiness check.
list_models_unchecked(bearer, db, config, generator, utcnow) ==
    LET auth == Authorize(bearer, db, utcnow)
    IN  IF auth.status_code # 200
        THEN [status |-> auth.status_code, detail |-> auth.detail, body |-> None]
        ELSE [status |-> 200, detail |-> "", body |-> get_available_models(config, generator)]

\* GET /v1/models
list_models(bearer, db, config, generator, utcnow) ==
    LET auth == Authorize(bearer, db, utcnow)
    IN  IF auth.status_code # 200
        THEN [status |-> auth.status_code, detail |-> auth.detail, body |-> None]
        ELSE IF ~is_ready(config, generator)
        THEN [status |-> 503, detail |-> NotFullyInitializedDetail, body |-> None]
        ELSE [status |-> 200, detail |-> "", body |-> get_available_models(config, generator)]

\* GET /health
health_check(config, generator) ==
    LET h == get_health_status(config, generator)
    IN  IF h = None
        THEN [status |-> 503, detail |-> NotFullyInitializedDetail, body |-> None]
        ELSE [status |-> 200, detail |-> "", body |-> h]

\* ----------------------------------------------------------------- state
VARIABLES
    users_db,        \* auth.users_db: username -> record
    created_with,    \* history: the password each account was created with
    registered,      \* history: the successful registrations of each username
    config,          \* service.config: None or Some(ModelConfig)
    generator,       \* service.generator: None or Some(TextGenerator)
    initialized,     \* history: a successful initialize not followed by a shutdown
    expire_minutes,  \* main.ACCESS_TOKEN_EXPIRE_MINUTES
    now,             \* datetime.utcnow(), in minutes
    issued,          \* the token the client holds: None or Some([token, at, ttl])
    resp             \* the last request handled and its outcome

vars == <<users_db, created_with, registered, config, generator, initialized,
          expire_minutes, now, issued, resp>>

auth_vars == <<users_db, created_with, registered>>
service_vars == <<config, generator, initialized>>

Prompts == {<<"H", "i">>, <<" ">>, <<"a", " ", " ", "b", "\n">>}

\* Request bodies: one base body and bodies that differ from it in the prompt,
\* in max_tokens, in temperature, or in n and model.
BaseRequest ==
    [model |-> "tinyllama-1.1b", prompt |-> <<"H", "i">>, max_tokens |-> Some(50),
     temperature |-> Some(5), stream |-> Some(FALSE), n |-> Some(1), stop |-> None]

CompletionRequests ==
    {[BaseRequest EXCEPT !.prompt = p, !.max_tokens = mt] :
        p \in Prompts, mt \in {Some(50), Some(0)}}
    \cup {[BaseRequest EXCEPT !.max_tokens = mt] :
             mt \in {Some(MAX_TOKENS_GE), Some(MAX_TOKENS_LE), None}}
    \cup {[BaseRequest EXCEPT !.temperature = t] :
             t \in {Some(TEMPERATURE_GE), Some(TEMPERATURE_LE), None}}
    \cup {[BaseRequest EXCEPT !.n = Some(N_LE), !.model = "other-model"]}

\* The inputs of the whole-system specification.
FewCompletionRequests ==
    {[BaseRequest EXCEPT !.max_tokens = mt] : mt \in {Some(50), Some(0)}}
FewModelOutcomes ==
    {o \in ModelOutcomes : o.kind = "model_error" \/ (o.kind = "text" /\ o.text = <<"h", "i">>)}

\* A token signed with another key.
ForgedToken == jwt_encode([sub |-> BootstrapUser, exp |-> MaxTime + 1], "another key")

\* What a client may present: a forged token, the token it holds.
ClientBearers ==
    {Some(ForgedToken)} \cup (IF issued = None THEN {} ELSE {Some(issued[1].token)})

Init ==
    /\ users_db \in {InitialUsersDb(s) : s \in Salts}
    /\ created_with = [u \in {BootstrapUser} |-> AdminPassword]
    /\ registered = [u \in Usernames |-> 0]
    /\ config = None
    /\ generator = None
    /\ initialized = FALSE
    /\ expire_minutes \in 0..MaxTtl
    /\ now = 0
    /\ issued = None
    /\ resp = Response("start", 0, "", None, None, 0)

\* The clock advances.
Tick ==
    /\ now < MaxTime
    /\ now' = now + 1
    /\ UNCHANGED <<auth_vars, service_vars, expire_minutes, issued, resp>>

Login(username, password) ==
    LET r == login_for_access_token(users_db, username, password, expire_minutes, now)
    IN  /\ resp' = Response("token", r.status, r.detail, r.body,
                            [username |-> username, password |-> password, user |-> r.user], now)
        /\ issued' = IF r.status = 200
                     THEN Some([token |-> r.body[1].access_token, at |-> now, ttl |-> expire_minutes])
                     ELSE issued
        /\ UNCHANGED <<auth_vars, service_vars, expire_minutes, now>>

Register(username, password, salt) ==
    LET r == register_user(users_db, username, password, salt)
    IN  /\ resp' = Response("register", r.status, r.detail, r.body,
                            [username |-> username, password |-> password,
                             store_before |-> users_db], now)
        /\ users_db' = r.db
        /\ created_with' = IF r.status = 200
                           THEN [u \in DOMAIN created_with \cup {username} |->
                                   IF u = username THEN password ELSE created_with[u]]
                           ELSE created_with
        /\ registered' = IF r.status = 200
                         THEN [registered EXCEPT ![username] = @ + 1]
                         ELSE registered
        /\ UNCHANGED <<service_vars, expire_minutes, now, issued>>

ReadUsersMe(bearer) ==
    LET r == read_users_me(bearer, users_db, now)
    IN  /\ resp' = Response("users/me", r.status, r.detail, r.body, [bearer |-> bearer], now)
        /\ UNCHANGED <<auth_vars, service_vars, expire_minutes, now, issued>>

CreateCompletion(bearer, request, outcome) ==
    LET r == create_completion(bearer, request, users_db, config, generator, outcome, now)
    IN  /\ resp' = Response("v1/completions", r.status, r.detail, r.body,
                            [bearer |-> bearer, request |-> request, outcome |-> outcome,
                             invoked |-> r.invoked, engine_calls |-> r.engine_calls], now)
        /\ UNCHANGED <<auth_vars, service_vars, expire_minutes, now, issued>>

ListModels(bearer) ==
    LET r == list_models(bearer, users_db, config, generator, now)
    IN  /\ resp' = Response("v1/models", r.status, r.detail, r.body, [bearer |-> bearer], now)
        /\ UNCHANGED <<auth_vars, service_vars, expire_minutes, now, issued>>

HealthCheck ==
    LET r == health_check(config, generator)
    IN  /\ resp' = Response("health", r.status, r.detail, r.body, None, now)
        /\ UNCHANGED <<auth_vars, service_vars, expire_minutes, now, issued>>

\* The startup hook: service.initialize().
Initialize(outcome) ==
    LET r == initialize(config, generator, outcome)
    IN  /\ config' = r.config
        /\ generator' = r.generator
        /\ initialized' = IF r.raised THEN initialized ELSE TRUE
        /\ resp' = Response("startup", 0, IF r.raised THEN "raised" ELSE "", None, outcome, now)
        /\ UNCHANGED <<auth_vars, expire_minutes, now, issued>>

\* The shutdown hook: service.shutdown().
Shutdown ==
    LET r == shutdown(config, generator)
    IN  /\ config' = r.config
        /\ generator' = r.generator
        /\ initialized' = FALSE
        /\ resp' = Response("shutdown", 0, IF r.raised THEN "raised" ELSE "", None, None, now)
        /\ UNCHANGED <<auth_vars, expire_minutes, now, issued>>

\* The whole system: every route and both lifecycle hooks.
Next ==
    \/ Tick
    \/ \E username \in FewUsernames, password \in FewPasswords : Login(username, password)
    \/ \E username \in FewUsernames, password \in {StrongPass, NoDigitPass}, salt \in Salts :
           Register(username, password, salt)
    \/ \E bearer \in ClientBearers : ReadUsersMe(bearer)
    \/ \E bearer \in ClientBearers, request \in FewCompletionRequests,
          outcome \in FewModelOutcomes :
           CreateCompletion(bearer, request, outcome)
    \/ \E bearer \in ClientBearers : ListModels(bearer)
    \/ HealthCheck
    \/ \E outcome \in InitOutcomes : Initialize(outcome)
    \/ Shutdown

Spec == Init /\ [][Next]_vars
\* The credential flows alone, over every username and password of the inputs.
NextAuth ==
    \/ \E username \in Usernames, password \in Passwords : Login(username, password)
    \/ \E username \in Usernames, password \in Passwords, salt \in Salts :
           Register(username, password, salt)

SpecAuth == Init /\ [][NextAuth]_vars

\* The completion flow alone, over every request and model outcome of the
\* inputs: the bootstrap account logs in, the service starts and stops.
NextCompletion ==
    \/ Login(BootstrapUser, AdminPassword)
    \/ \E bearer \in ClientBearers, request \in CompletionRequests, outcome \in ModelOutcomes :
           CreateCompletion(bearer, request, outcome)
    \/ \E outcome \in InitOutcomes : Initialize(outcome)
    \/ Shutdown

SpecCompletion == Init /\ [][NextCompletion]_vars

\* Token verification as a function of the token, the store and the clock:
\* the store is drawn from stores that also hold an inactive account, and the
\* token from every well-formed token.
VerifyStores ==
    {[u \in d |-> UserRecord(u, pwd_hash(IF u = BootstrapUser THEN AdminPassword ELSE StrongPass,
                                        "salt-a"), u \notin inactive)] :
        d \in {{BootstrapUser}, {BootstrapUser, "alice"}}, inactive \in {{}, {"alice"}}}

VerifyClaims ==
    {[sub |-> u, exp |-> e] : u \in {BootstrapUser, "alice", "carol"}, e \in 0..MaxTime}
    \cup {[sub |-> u] : u \in {BootstrapUser, "alice", "carol"}}
    \cup {[exp |-> e] : e \in 0..MaxTime}

VerifyTokens == {jwt_encode(c, k) : c \in VerifyClaims, k \in {SECRET_KEY, "another key"}}

InitVerify ==
    /\ users_db \in VerifyStores
    /\ created_with = [u \in DOMAIN users_db |->
                         IF u = BootstrapUser THEN AdminPassword ELSE StrongPass]
    /\ registered = [u \in Usernames |-> IF u \in DOMAIN users_db \ {BootstrapUser} THEN 1 ELSE 0]
    /\ \E r \in {initialize(None, None, o) : o \in {"config_error", "cpu"}} :
          /\ config = r.config
          /\ generator = r.generator
          /\ initialized = ~r.raised
    /\ expire_minutes = MaxTtl
    /\ now = 0
    /\ issued = None
    /\ resp = Response("start", 0, "", None, None, 0)

NextVerify ==
    \/ Tick
    \/ \E t \in VerifyTokens : ReadUsersMe(Some(t))
    \/ \E t \in VerifyTokens, request \in {r \in FewCompletionRequests : CompletionRequest(r)},
          outcome \in FewModelOutcomes :
           CreateCompletion(Some(t), request, outcome)
    \/ \E t \in VerifyTokens : ListModels(Some(t))

SpecVerify == InitVerify /\ [][NextVerify]_vars

\* TextGenerator.generate as a function of its arguments, on a loaded engine.
GenerateLengths == {None, Some(-1), Some(0), Some(1), Some(50)}
GenerateTemperatures == {None, Some(-1), Some(0), Some(5)}

InitGenerate ==
    /\ users_db \in {InitialUsersDb(s) : s \in Salts}
    /\ created_with = [u \in {BootstrapUser} |-> AdminPassword]
    /\ registered = [u \in Usernames |-> 0]
    /\ config = Some(ModelConfig)
    /\ generator \in {Some(TextGenerator(ModelConfig, d)) : d \in Devices}
    /\ initialized = TRUE
    /\ expire_minutes \in 0..MaxTtl
    /\ now = 0
    /\ issued = None
    /\ resp = Response("start", 0, "", None, None, 0)

\* One call of generator.generate(prompt, max_length, temperature).
Generate(prompt, max_length, temperature, outcome) ==
    LET r == generate(generator[1], prompt, max_length, temperature, outcome)
    IN  /\ resp' = Response("generate", 0, r.message, r,
                            [prompt |-> prompt, max_length |-> max_length,
                             temperature |-> temperature], now)
        /\ UNCHANGED <<auth_vars, service_vars, expire_minutes, now, issued>>

NextGenerate ==
    \E prompt \in Prompts, max_length \in GenerateLengths,
       temperature \in GenerateTemperatures, outcome \in ModelOutcomes :
        Generate(prompt, max_length, temperature, outcome)

SpecGenerate == InitGenerate /\ [][NextGenerate]_vars

\* ------------------------------------------------------------------ claims
\* The password policy as the specification states it: at least 8 characters,
\* a special character of the fixed set, a digit and an uppercase letter.
PolicyCompliant(p) ==
    /\ Len(p) >= 8
    /\ \E i \in DOMAIN p : p[i] \in SpecialChars
    /\ \E i \in DOMAIN p : isdigit(p[i])
    /\ \E i \in DOMAIN p : isupper(p[i])

\* The body constraints of POST /register as the schema states them.
SchemaValid(u, p) == Len(u) \in 3..50 /\ Len(p) \in 8..100

\* A register request with a policy-compliant password either creates the
\* record, or is answered DuplicateUsername after an earlier successful
\* registration of the same username, the record staying as it was.
OncePerUsername(r) ==
    LET u == r.req.username
    IN  \/ /\ r.status = 200
           /\ u \notin DOMAIN r.req.store_before
           /\ u \in DOMAIN users_db
           /\ registered[u] = 1
        \/ /\ r.status = 400
           /\ r.detail = DuplicateDetail
           /\ registered[u] = 1
           /\ users_db = r.req.store_before

\* C1 as stated: for every username and every policy-compliant password,
\* registration succeeds exactly once: the first request creates the record and
\* every later one fails with DuplicateUsername and leaves the record unchanged.
C1_EveryUsernameRegistersOnce ==
    /\ \A u \in Usernames : registered[u] <= 1
    /\ (resp.route = "register" /\ PolicyCompliant(resp.req.password)) => OncePerUsername(resp)

\* C1 amended: the same for every username of 3..50 characters other than the
\* pre-seeded bootstrap account and every policy-compliant password of at most
\* 100 characters; the bootstrap username is never registered (every attempt
\* is answered DuplicateUsername) and a body outside the schema is answered 422.
C1_RegistersOnce ==
    /\ \A u \in Usernames : registered[u] <= 1
    /\ registered[BootstrapUser] = 0
    /\ (resp.route = "register" /\ PolicyCompliant(resp.req.password)) =>
          IF ~SchemaValid(resp.req.username, resp.req.password)
          THEN resp.status = 422 /\ users_db = resp.req.store_before
          ELSE IF resp.req.username = BootstrapUser
          THEN /\ resp.status = 400
               /\ resp.detail = DuplicateDetail
               /\ users_db = resp.req.store_before
          ELSE OncePerUsername(resp)

\* A second registration of a username, after the first succeeded.
C1_Witness ==
    /\ resp.route = "register"
    /\ PolicyCompliant(resp.req.password)
    /\ resp.req.username # BootstrapUser
    /\ resp.status = 400
    /\ resp.detail = DuplicateDetail
    /\ registered[resp.req.username] = 1

\* C2 as stated: a register request whose password fails a policy rule is
\* answered WeakPasswordError (HTTP 400) and adds no record.
C2_WeakPasswordAnswered400 ==
    (resp.route = "register" /\ ~PolicyCompliant(resp.req.password)) =>
        /\ resp.status = 400
        /\ resp.detail = WeakPasswordDetail
        /\ users_db = resp.req.store_before

\* C2 amended: for every password failing a policy rule, hash creation fails
\* with WeakPasswordError (400) and POST /register adds no record; register
\* answers WeakPasswordError when the body passes the schema and the username
\* is not registered yet, 422 when the body fails the schema (a password under
\* 8 characters), and DuplicateUsername (400) when the username exists.
C2_WeakPasswordNeverStored ==
    /\ \A p \in Passwords, s \in Salts :
          ~PolicyCompliant(p) =>
              LET h == get_password_hash(p, s)
              IN  h.raised /\ h.status_code = 400 /\ h.detail = WeakPasswordDetail
    /\ (resp.route = "register" /\ ~PolicyCompliant(resp.req.password)) =>
          /\ users_db = resp.req.store_before
          /\ IF ~SchemaValid(resp.req.username, resp.req.password)
             THEN resp.status = 422
             ELSE IF resp.req.username \in DOMAIN resp.req.store_before
             THEN resp.status = 400 /\ resp.detail = DuplicateDetail
             ELSE resp.status = 400 /\ resp.detail = WeakPasswordDetail

\* A new username registered with a password that has no digit.
C2_Witness ==
    /\ resp.route = "register"
    /\ resp.req.password = NoDigitPass
    /\ resp.req.username \notin DOMAIN users_db
    /\ resp.status = 400
    /\ resp.detail = WeakPasswordDetail

\* C5: authenticate returns the credential record exactly when the username
\* exists and the password is the one the account was created with, and None
\* otherwise; POST /token answers 401 with no token in the second case and
\* 200 with a token in the first.
C5_AuthenticateExactly ==
    resp.route = "token" =>
        LET u == resp.req.username
            ok == u \in DOMAIN users_db /\ created_with[u] = resp.req.password
        IN  IF ok
            THEN /\ resp.req.user = Some(users_db[u])
                 /\ resp.status = 200
                 /\ resp.body # None
            ELSE /\ resp.req.user = None
                 /\ resp.status = 401
                 /\ resp.body = None

\* A registered account, and a login with a password it was not created with.
C5_Witness ==
    /\ resp.route = "token"
    /\ resp.req.username \in DOMAIN users_db
    /\ resp.req.username # BootstrapUser
    /\ created_with[resp.req.username] # resp.req.password
    /\ PolicyCompliant(resp.req.password)
    /\ resp.status = 401

ProtectedRoutes == {"users/me", "v1/completions", "v1/models"}

\* The error detail of a response (a route with a composed message holds it
\* as a tuple of its parts).
DetailIs(r, d) == r.detail = d \/ r.detail = <<d>>

\* C3 as stated: the token of a login, presented on a protected route, resolves
\* to its subject when presented at the time of issuance, and is answered
\* InvalidToken (401) whenever more than the ttl passed to issue has elapsed
\* since issuance.
C3_VerifyIssueRoundTrip ==
    (/\ resp.route \in ProtectedRoutes
     /\ issued # None
     /\ resp.req.bearer = Some(issued[1].token)) =>
        /\ resp.at = issued[1].at =>
              /\ resp.status # 401
              /\ resp.route = "users/me" =>
                    /\ resp.status = 200
                    /\ resp.body[1].username = issued[1].token.claims["sub"]
        /\ resp.at > issued[1].at + issued[1].ttl =>
              resp.status = 401 /\ DetailIs(resp, CredentialsDetail)

\* The token of a protected request fails verification: the signature is
\* invalid, exp is in the past, sub is missing, or sub names no stored account.
FailsVerification(r) ==
    LET t == r.req.bearer[1]
    IN  \/ t.key # SECRET_KEY
        \/ "exp" \in DOMAIN t.claims /\ t.claims["exp"] < r.at
        \/ "sub" \notin DOMAIN t.claims
        \/ t.claims["sub"] \notin DOMAIN users_db

C6_ReadyIffInitialized ==
    /\ is_ready(config, generator) <=> initialized
    /\ resp.route = "start" => ~is_ready(config, generator)
    /\ resp.route = "shutdown" => ~is_ready(config, generator) /\ resp.detail = ""
    /\ (resp.route = "startup" /\ resp.detail = "") => is_ready(config, generator)

\* A shutdown of a service whose configuration had been loaded.
C6_Witness ==
    /\ resp.route = "shutdown"
    /\ config # None
    /\ generator = None
    /\ ~initialized

\* A bearer token that verifies at time `at`: signed with the key, not
\* expired, naming an active account of the store.
ValidBearer(bearer, at) ==
    /\ bearer # None
    /\ bearer[1].key = SECRET_KEY
    /\ "exp" \in DOMAIN bearer[1].claims => bearer[1].claims["exp"] >= at
    /\ "sub" \in DOMAIN bearer[1].claims
    /\ bearer[1].claims["sub"] \in DOMAIN users_db
    /\ users_db[bearer[1].claims["sub"]].is_active

\* The body constraints of POST /v1/completions as the data model states them.
BodyValid(q) ==
    /\ Len(q.prompt) \in 1..4096
    /\ q.max_tokens # None => q.max_tokens[1] \in 1..2048
    /\ q.temperature # None => q.temperature[1] \in 0..10
    /\ q.n # None => q.n[1] \in 1..5
    /\ q.stop # None =>
          Len(q.stop[1]) <= 4 /\ \A i \in DOMAIN q.stop[1] : Len(q.stop[1][i]) <= 50

\* C7: GET /health, and POST /v1/completions and GET /v1/models for a request
\* with a valid token that reaches the handler (a completion body that passes
\* the schema), answer 503 exactly when the service is not ready.
C7_Unavailable503IffNotReady ==
    /\ resp.route = "health" => (resp.status = 503 <=> ~is_ready(config, generator))
    /\ (resp.route = "v1/models" /\ ValidBearer(resp.req.bearer, resp.at)) =>
          (resp.status = 503 <=> ~is_ready(config, generator))
    /\ (/\ resp.route = "v1/completions"
        /\ ValidBearer(resp.req.bearer, resp.at)
        /\ BodyValid(resp.req.request)) =>
          (resp.status = 503 <=> ~is_ready(config, generator))

\* A completion request with a valid token, after a shutdown.
C7_Witness ==
    /\ resp.route = "v1/completions"
    /\ ValidBearer(resp.req.bearer, resp.at)
    /\ resp.status = 503
    /\ config # None
    /\ ~initialized

\* The whitespace-delimited words of s: the positions where a word starts.
WordCount(s) ==
    Cardinality({i \in DOMAIN s : s[i] \notin Whitespace /\ (i = 1 \/ s[i - 1] \in Whitespace)})

\* C8: every completion response has total_tokens = prompt_tokens +
\* completion_tokens, prompt_tokens the number of whitespace-delimited words of
\* the prompt and completion_tokens that of the generated text (0 when empty).
C8_TotalTokens ==
    (resp.route = "v1/completions" /\ resp.status = 200) =>
        LET usage == resp.body[1].usage
            text == resp.body[1].choices[1].text
        IN  /\ usage.total_tokens = usage.prompt_tokens + usage.completion_tokens
            /\ usage.prompt_tokens = WordCount(resp.req.request.prompt)
            /\ usage.completion_tokens = WordCount(text)
            /\ text = <<>> => usage.completion_tokens = 0

\* A response to a two-word prompt with consecutive spaces and an empty generation.
C8_Witness ==
    /\ resp.route = "v1/completions"
    /\ resp.status = 200
    /\ resp.body[1].usage.prompt_tokens = 2
    /\ resp.body[1].usage.completion_tokens = 0
    /\ resp.body[1].usage.total_tokens = 2

\* C9 as stated: a call of generate with max_length < 1 (0 included) or
\* temperature < 0 raises ValueError and does not invoke the model.
C9_InvalidParameterRejected ==
    (/\ resp.route = "generate"
     /\ \/ resp.req.max_length # None /\ resp.req.max_length[1] < 1
        \/ resp.req.temperature # None /\ resp.req.temperature[1] < 0) =>
        /\ resp.body.raised = "ValueError"
        /\ resp.body.invoked = None

\* C10: no step deletes or changes a credential record; the store changes only
\* by a successful registration adding the record of a new username; the
\* bootstrap account is always there, active, with its seed password.
C10_RecordsImmutable ==
    /\ [](/\ BootstrapUser \in DOMAIN users_db
          /\ users_db[BootstrapUser].is_active
          /\ verify_password(AdminPassword, users_db[BootstrapUser].hashed_password))
    /\ [][/\ \A u \in DOMAIN users_db : u \in DOMAIN users_db' /\ users_db'[u] = users_db[u]
          /\ users_db' # users_db =>
                /\ resp'.route = "register"
                /\ resp'.status = 200
                /\ resp'.req.username \notin DOMAIN users_db
                /\ DOMAIN users_db' = DOMAIN users_db \cup {resp'.req.username}]_vars

\* A registered account, with the service shut down after a start.
C10_Witness ==
    /\ registered["alice"] = 1
    /\ resp.route = "shutdown"
    /\ config # None
    /\ issued # None

\* C12 as stated: every issued token carries exp = issued_at + ttl for the ttl
\* passed to issue (the configured token TTL at login), a ttl of zero included.
C12_ExpIsIssuedAtPlusTtl ==
    /\ issued # None =>
          issued[1].token.claims["exp"] = issued[1].at + issued[1].ttl
    /\ (resp.route = "token" /\ resp.status = 200) =>
          resp.body[1].access_token.claims["exp"] = resp.at + expire_minutes

\* C11 as stated: whenever a completion request reaches the underlying model,
\* the model is invoked with exactly the max_tokens and the temperature the
\* request supplied, temperature 0.0 included; a default is used only for a
\* value the request left out.
C11_RequestParametersPassed ==
    (resp.route = "v1/completions" /\ resp.req.invoked # None) =>
        LET request == resp.req.request
            call == resp.req.invoked[1]
        IN  /\ request.max_tokens # None => call.max_length = request.max_tokens[1]
            /\ request.temperature # None => call.temperature = request.temperature[1]

\* The engine exceptions a model outcome ends in, and the message each carries.
EngineFailure(outcome) == outcome.kind # "text"

EngineFailureMessage(outcome) ==
    IF outcome.kind = "model_value_error" THEN <<outcome.message>>
    ELSE <<"Text generation failed: ", outcome.message>>

\* C13: a POST /v1/completions with a valid token and a valid body, handled
\* while ready, calls the generator exactly once, with the request's arguments;
\* when that call raises, the answer is 500 with the exception's message and
\* no body, still after one call; a request rejected for its token or because
\* the service is not ready calls the generator zero times.
C13_OneEngineCallNoRetry ==
    resp.route = "v1/completions" =>
        LET q == resp.req
            authenticated == ValidBearer(q.bearer, resp.at)
            ready == is_ready(config, generator)
            handled == authenticated /\ BodyValid(q.request) /\ ready
        IN  /\ handled =>
                  /\ Len(q.engine_calls) = 1
                  /\ q.engine_calls[1].prompt = q.request.prompt
                  /\ q.engine_calls[1].max_length = q.request.max_tokens
                  /\ q.engine_calls[1].temperature = q.request.temperature
            /\ (handled /\ EngineFailure(q.outcome)) =>
                  /\ resp.status = 500
                  /\ resp.detail = EngineFailureMessage(q.outcome)
                  /\ resp.body = None
            /\ (handled /\ ~EngineFailure(q.outcome)) => resp.status = 200
            /\ (~authenticated \/ ~ready) => Len(q.engine_calls) = 0
            /\ resp.status \in {400, 401, 503} => Len(q.engine_calls) = 0

\* A handled request whose single generator call raised inside the model.
C13_Witness ==
    /\ resp.route = "v1/completions"
    /\ ValidBearer(resp.req.bearer, resp.at)
    /\ is_ready(config, generator)
    /\ resp.req.outcome.kind = "model_error"
    /\ resp.status = 500
    /\ Len(resp.req.engine_calls) = 1

\* C14: every successful answer of POST /v1/completions, whatever n in 1..5 the
\* request asked for, carries exactly one choice, with index 0 and finish
\* reason "stop", and a model field equal to the request's model string.
C14_SingleChoiceEchoesModel ==
    (resp.route = "v1/completions" /\ resp.status = 200) =>
        LET request == resp.req.request
            body == resp.body[1]
        IN  /\ request.n # None => request.n[1] \in 1..5
            /\ Len(body.choices) = 1
            /\ body.choices[1].index = 0
            /\ body.choices[1].finish_reason = "stop"
            /\ body.model = request.model

\* A successful answer to a request that asked for five choices of another
\* model name.
C14_Witness ==
    /\ resp.route = "v1/completions"
    /\ resp.status = 200
    /\ resp.req.request.n = Some(5)
    /\ resp.req.request.model = "other-model"
    /\ Len(resp.body[1].choices) = 1
====
